---- MODULE Spec2Model ----
(***************************************************************************)
(* Model of ats_resume_converter.py: the prompt builder (build_prompt),    *)
(* the completion client (call_openai_chat) and the CLI driver (main).     *)
(*                                                                         *)
(* Text is a sequence of one-character strings.  The instruction template  *)
(* PROMPT_DOCSTRING keeps its seven replacement fields, in source order,   *)
(* each with the literal character that precedes and follows it in the     *)
(* source; the prose between the fields is elided and the field names are  *)
(* abbreviated (r, j, u, ul).  str.format, str.replace and str.lower are   *)
(* modelled character by character.                                        *)
(*                                                                         *)
(* Every invocation of main is a thread t; openai.api_key and os.environ   *)
(* are process-wide.                                                       *)
(***************************************************************************)
EXTENDS Integers, Sequences, FiniteSets, TLC

VARIABLES
  pc,             \* pc[t]: position of invocation t in main
  args,           \* args[t]: parsed argparse.Namespace of invocation t
  environ,        \* os.environ["OPENAI_API_KEY"] (None when unset)
  api_key,        \* the module global openai.api_key
  resolved,       \* resolved[t]: the credential invocation t assigned to openai.api_key
  raw,            \* raw[t]: main's local raw / build_prompt's raw_career_data
  jd,             \* jd[t]: main's local jd / build_prompt's target_job_description
  prompt,         \* prompt[t]: value returned by build_prompt
  calls,          \* calls[t]: number of openai.ChatCompletion.create calls issued
  used_key,       \* used_key[t]: openai.api_key as read by the outbound call
  resp,           \* resp[t]: value returned by openai.ChatCompletion.create
  raised,         \* raised[t]: kind of the exception raised in invocation t
  assistant_text, \* assistant_text[t]: value returned by call_openai_chat
  stdout,         \* stdout[t]: text written to sys.stdout
  exit            \* exit[t]: value returned by main

vars == <<pc, args, environ, api_key, resolved, raw, jd, prompt, calls,
          used_key, resp, raised, assistant_text, stdout, exit>>

----------------------------------------------------------------------------
(* Bounds *)

NumThreads == 2
MaxTextLen == 2
MaxNameLen == 3

Threads == 1..NumThreads

----------------------------------------------------------------------------
(* Python values *)

None == "<None>"
Missing == "<missing>"       \* a lookup that raises (KeyError, AttributeError, ...)
Unset == "<unset>"           \* a string-valued local not yet assigned
NoText == <<"<unset>">>      \* a text-valued local not yet assigned
NoExit == 0 - 1              \* main has not returned

Truthy(v) == v /= None /\ v /= ""

StringsUpTo(A, n) == UNION {[1..k -> A] : k \in 0..n}

----------------------------------------------------------------------------
(* str.replace with a one-character pattern, str.lower *)

RECURSIVE Replace(_, _, _)
Replace(s, old, new) ==
  IF s = <<>> THEN <<>>
  ELSE (IF Head(s) = old THEN new ELSE <<Head(s)>>) \o Replace(Tail(s), old, new)

UpperToLower ==
  [c \in {"A","B","C","D","E","F","G","H","I","J","K","L","M",
          "N","O","P","Q","R","S","T","U","V","W","X","Y","Z"} |->
     CASE c = "A" -> "a" [] c = "B" -> "b" [] c = "C" -> "c" [] c = "D" -> "d"
       [] c = "E" -> "e" [] c = "F" -> "f" [] c = "G" -> "g" [] c = "H" -> "h"
       [] c = "I" -> "i" [] c = "J" -> "j" [] c = "K" -> "k" [] c = "L" -> "l"
       [] c = "M" -> "m" [] c = "N" -> "n" [] c = "O" -> "o" [] c = "P" -> "p"
       [] c = "Q" -> "q" [] c = "R" -> "r" [] c = "S" -> "s" [] c = "T" -> "t"
       [] c = "U" -> "u" [] c = "V" -> "v" [] c = "W" -> "w" [] c = "X" -> "x"
       [] c = "Y" -> "y" [] c = "Z" -> "z"]

Lower(s) ==
  [i \in DOMAIN s |-> IF s[i] \in DOMAIN UpperToLower THEN UpperToLower[s[i]] ELSE s[i]]

----------------------------------------------------------------------------
(* The instruction template and str.format *)

RAW_CAREER_DATA == <<"r">>
TARGET_JOB_DESCRIPTION == <<"j">>
USER_NAME == <<"u">>
USER_NAME_LOWER == <<"u", "l">>

Field(n) == <<"{">> \o n \o <<"}">>

PROMPT_DOCSTRING_EscapedField ==
       <<" ">> \o Field(RAW_CAREER_DATA)        \o <<"\n">>
    \o <<" ">> \o Field(TARGET_JOB_DESCRIPTION) \o <<"\n">>
    \o <<" ">> \o Field(USER_NAME)              \o <<"\n">>
    \o <<" ">> \o Field(TARGET_JOB_DESCRIPTION) \o <<".">>
    \o <<" ">> \o Field(RAW_CAREER_DATA)        \o <<",">>
    \o <<" ">> \o Field(USER_NAME)              \o <<" ">>
    \o <<" ">> \o <<"{">> \o Field(USER_NAME_LOWER) \o <<"}">> \o <<"@">>

PROMPT_DOCSTRING ==
       <<" ">> \o Field(RAW_CAREER_DATA)        \o <<"\n">>
    \o <<" ">> \o Field(TARGET_JOB_DESCRIPTION) \o <<"\n">>
    \o <<" ">> \o Field(USER_NAME)              \o <<"\n">>
    \o <<" ">> \o Field(TARGET_JOB_DESCRIPTION) \o <<".">>
    \o <<" ">> \o Field(RAW_CAREER_DATA)        \o <<",">>
    \o <<" ">> \o Field(USER_NAME)              \o <<" ">>
    \o <<" ">> \o Field(USER_NAME_LOWER)        \o <<"@">>

\* Index of the first "}" of t at or after i, 0 when there is none.
RECURSIVE FindClose(_, _)
FindClose(t, i) ==
  IF i > Len(t) THEN 0
  ELSE IF t[i] = "}" THEN i
  ELSE FindClose(t, i + 1)

Lit(c) == [slot |-> <<>>, text |-> <<c>>]

\* str.format(**kw) on t from index i: the parts of the result, or the error raised.
RECURSIVE FormatFrom(_, _, _)
FormatFrom(t, i, kw) ==
  IF i > Len(t) THEN [err |-> None, parts |-> <<>>]
  ELSE IF t[i] = "{" /\ i < Len(t) /\ t[i + 1] = "{" THEN
    LET rest == FormatFrom(t, i + 2, kw)
    IN  [err |-> rest.err, parts |-> <<Lit("{")>> \o rest.parts]
  ELSE IF t[i] = "}" /\ i < Len(t) /\ t[i + 1] = "}" THEN
    LET rest == FormatFrom(t, i + 2, kw)
    IN  [err |-> rest.err, parts |-> <<Lit("}")>> \o rest.parts]
  ELSE IF t[i] = "}" THEN [err |-> "ValueError", parts |-> <<>>]
  ELSE IF t[i] = "{" THEN
    LET j == FindClose(t, i + 1)
    IN  IF j = 0 THEN [err |-> "ValueError", parts |-> <<>>]
        ELSE LET n == SubSeq(t, i + 1, j - 1)
             IN  IF n \notin DOMAIN kw THEN [err |-> "KeyError", parts |-> <<>>]
                 ELSE LET rest == FormatFrom(t, j + 1, kw)
                      IN  [err |-> rest.err,
                           parts |-> <<[slot |-> n, text |-> kw[n]]>> \o rest.parts]
  ELSE
    LET rest == FormatFrom(t, i + 1, kw)
    IN  [err |-> rest.err, parts |-> <<Lit(t[i])>> \o rest.parts]

Format(t, kw) == FormatFrom(t, 1, kw)

RECURSIVE Join(_)
Join(parts) == IF parts = <<>> THEN <<>> ELSE Head(parts).text \o Join(Tail(parts))

----------------------------------------------------------------------------
(* build_prompt *)

EscapeBraces(s) == Replace(Replace(s, "{", <<"{", "{">>), "}", <<"}", "}">>)

NormalizedHandle_NoLower(user_name) == Replace(user_name, " ", <<>>)

NormalizedHandle(user_name) == Replace(Lower(user_name), " ", <<>>)

PromptKeywords(raw_career_data, target_job_description, user_name) ==
  (RAW_CAREER_DATA :> EscapeBraces(raw_career_data))
    @@ (TARGET_JOB_DESCRIPTION :> EscapeBraces(target_job_description))
    @@ (USER_NAME :> user_name)
    @@ (USER_NAME_LOWER :> NormalizedHandle(user_name))

\* PROMPT_DOCSTRING.format(...): the parts of the returned text, one per literal
\* character and one per substituted field, and the error .format raises if any.
\* The returned string is Join of the parts.
build_prompt(raw_career_data, target_job_description, user_name) ==
  Format(PROMPT_DOCSTRING,
         PromptKeywords(raw_career_data, target_job_description, user_name))

----------------------------------------------------------------------------
(* Inputs *)

DEFAULT_NAME == <<"A","l","e","x"," ","M","o","r","g","a","n">>
_RAW_SAMPLE == <<"\n", "w", "\n">>
_JD_SAMPLE == <<"\n", "h", "\n">>

\* Files a --raw-file / --jd-file path can name; open() raises on the last one.
Unreadable == <<"<unreadable>">>
FileSystem ==
  ("career.txt" :> <<"{", "u", "}">>) @@ ("jd.txt" :> <<"j">>) @@ ("missing.txt" :> Unreadable)

PathArgs == {None, ""} \cup DOMAIN FileSystem

KeyOf(t) == "sk-" \o ToString(t)

DefaultArgs == [api_key |-> None, raw_file |-> None, jd_file |-> None, name |-> DEFAULT_NAME]

\* Texts handed to build_prompt directly
RawTexts == StringsUpTo({"{", "}", "u"}, MaxTextLen)
JdTexts == {<<>>, <<"}">>, <<"{", "j", "}">>}
Names == StringsUpTo({"{", "}", "U", " ", "\t"}, MaxNameLen)

----------------------------------------------------------------------------
(* read_file_or_default *)

read_file_or_default(path, default) ==
  IF ~Truthy(path) THEN [err |-> None, text |-> default]
  ELSE IF FileSystem[path] = Unreadable THEN [err |-> "RuntimeError", text |-> NoText]
  ELSE [err |-> None, text |-> FileSystem[path]]

----------------------------------------------------------------------------
(* call_openai_chat: the outbound call and the extraction of the answer *)

ServiceFailures == {"AuthenticationError", "RateLimitError", "Timeout"}

PathValues == {Missing, None, "", "RESUME TEXT", "legacy"}

\* What the three access paths of a response give: mapping-style
\* choices[0].message.content, attribute-style choices[0].message.content,
\* mapping-style choices[0].text.
Responses == [map : PathValues, attr : PathValues, text : PathValues]

NoResp == [map |-> Missing, attr |-> Missing, text |-> Missing]

\* What openai.ChatCompletion.create can do: raise, or return a response.
ServiceOutcomes ==
  {[err |-> f, resp |-> NoResp] : f \in ServiceFailures}
    \cup {[err |-> None, resp |-> r] : r \in Responses}

ExtractionOrder_LegacyFirst == <<"text", "map", "attr">>

ExtractionOrder == <<"map", "attr", "text">>

\* The try/except chain: the value of the first path that does not raise.
RECURSIVE ExtractFrom(_, _)
ExtractFrom(r, k) ==
  IF k > Len(ExtractionOrder) THEN [err |-> "RuntimeError", text |-> Unset]
  ELSE IF r[ExtractionOrder[k]] /= Missing THEN [err |-> None, text |-> r[ExtractionOrder[k]]]
  ELSE ExtractFrom(r, k + 1)

Extract(r) == ExtractFrom(r, 1)

----------------------------------------------------------------------------
(* main *)

\* lines 175-178: openai.api_key = args.api_key or the environment's key
SetApiKey(t) ==
  /\ pc[t] = "start"
  /\ LET k == IF Truthy(args[t].api_key) THEN args[t].api_key ELSE environ
     IN  /\ api_key' = k
         /\ resolved' = [resolved EXCEPT ![t] = k]
  /\ pc' = [pc EXCEPT ![t] = "check"]
  /\ UNCHANGED <<args, environ, raw, jd, prompt, calls, used_key, resp, raised,
                 assistant_text, stdout, exit>>

\* lines 180-182: return 2 when openai.api_key is falsy
CheckKey(t) ==
  /\ pc[t] = "check"
  /\ IF ~Truthy(api_key)
       THEN /\ exit' = [exit EXCEPT ![t] = 2]
            /\ pc' = [pc EXCEPT ![t] = "done"]
       ELSE /\ pc' = [pc EXCEPT ![t] = "read_raw"]
            /\ UNCHANGED exit
  /\ UNCHANGED <<args, environ, api_key, resolved, raw, jd, prompt, calls, used_key,
                 resp, raised, assistant_text, stdout>>

\* What an exception that main does not catch does to invocation t.
Propagate(t, kind) ==
  /\ raised' = [raised EXCEPT ![t] = kind]
  /\ pc' = [pc EXCEPT ![t] = "crashed"]

\* line 184
ReadRaw(t) ==
  /\ pc[t] = "read_raw"
  /\ LET r == read_file_or_default(args[t].raw_file, _RAW_SAMPLE)
     IN  IF r.err /= None
           THEN /\ Propagate(t, r.err)
                /\ UNCHANGED raw
           ELSE /\ raw' = [raw EXCEPT ![t] = r.text]
                /\ pc' = [pc EXCEPT ![t] = "read_jd"]
                /\ UNCHANGED raised
  /\ UNCHANGED <<args, environ, api_key, resolved, jd, prompt, calls, used_key, resp,
                 assistant_text, stdout, exit>>

\* line 185
ReadJd(t) ==
  /\ pc[t] = "read_jd"
  /\ LET r == read_file_or_default(args[t].jd_file, _JD_SAMPLE)
     IN  IF r.err /= None
           THEN /\ Propagate(t, r.err)
                /\ UNCHANGED jd
           ELSE /\ jd' = [jd EXCEPT ![t] = r.text]
                /\ pc' = [pc EXCEPT ![t] = "build"]
                /\ UNCHANGED raised
  /\ UNCHANGED <<args, environ, api_key, resolved, raw, prompt, calls, used_key, resp,
                 assistant_text, stdout, exit>>

\* lines 186-188: prompt = build_prompt(raw, jd, name)
BuildPrompt(t) ==
  /\ pc[t] = "build"
  /\ LET f == build_prompt(raw[t], jd[t], args[t].name)
     IN  IF f.err /= None
           THEN /\ Propagate(t, f.err)
                /\ UNCHANGED prompt
           ELSE /\ prompt' = [prompt EXCEPT ![t] = Join(f.parts)]
                /\ pc' = [pc EXCEPT ![t] = "call"]
                /\ UNCHANGED raised
  /\ UNCHANGED <<args, environ, api_key, resolved, raw, jd, calls, used_key, resp,
                 assistant_text, stdout, exit>>

\* lines 126-131: the one outbound request; it uses openai.api_key as it is now
\* and either raises or returns a response of some shape.
CallService(t) ==
  /\ pc[t] = "call"
  /\ calls' = [calls EXCEPT ![t] = @ + 1]
  /\ used_key' = [used_key EXCEPT ![t] = api_key]
  /\ \E outcome \in ServiceOutcomes :
       IF outcome.err /= None
         THEN /\ raised' = [raised EXCEPT ![t] = outcome.err]
              /\ pc' = [pc EXCEPT ![t] = "except"]
              /\ UNCHANGED resp
         ELSE /\ resp' = [resp EXCEPT ![t] = outcome.resp]
              /\ pc' = [pc EXCEPT ![t] = "extract"]
              /\ UNCHANGED raised
  /\ UNCHANGED <<args, environ, api_key, resolved, raw, jd, prompt, assistant_text,
                 stdout, exit>>

\* lines 133-144: return the first path that resolves, else raise RuntimeError
ExtractText(t) ==
  /\ pc[t] = "extract"
  /\ LET e == Extract(resp[t])
     IN  IF e.err /= None
           THEN /\ raised' = [raised EXCEPT ![t] = e.err]
                /\ pc' = [pc EXCEPT ![t] = "except"]
                /\ UNCHANGED assistant_text
           ELSE /\ assistant_text' = [assistant_text EXCEPT ![t] = e.text]
                /\ pc' = [pc EXCEPT ![t] = "write"]
                /\ UNCHANGED raised
  /\ UNCHANGED <<args, environ, api_key, resolved, raw, jd, prompt, calls, used_key,
                 resp, stdout, exit>>

AfterFailure_Retry(t) == [pc EXCEPT ![t] = "call"]

\* Where main's except clause (lines 192-194) leaves invocation t.
AfterFailure(t) == [pc EXCEPT ![t] = "done"]

\* lines 192-194: any exception of call_openai_chat ends the run with 3
HandleFailure(t) ==
  /\ pc[t] = "except"
  /\ exit' = [exit EXCEPT ![t] = IF AfterFailure(t)[t] = "done" THEN 3 ELSE @]
  /\ pc' = AfterFailure(t)
  /\ UNCHANGED <<args, environ, api_key, resolved, raw, jd, prompt, calls, used_key,
                 resp, raised, assistant_text, stdout>>

\* lines 198-199: sys.stdout.write(assistant_text or ""); return 0
WriteOutput(t) ==
  /\ pc[t] = "write"
  /\ stdout' = [stdout EXCEPT ![t] = IF Truthy(assistant_text[t]) THEN assistant_text[t] ELSE ""]
  /\ exit' = [exit EXCEPT ![t] = 0]
  /\ pc' = [pc EXCEPT ![t] = "done"]
  /\ UNCHANGED <<args, environ, api_key, resolved, raw, jd, prompt, calls, used_key,
                 resp, raised, assistant_text>>

----------------------------------------------------------------------------
(* Specifications *)

Blank ==
  /\ api_key = None
  /\ resolved = [t \in Threads |-> Unset]
  /\ prompt = [t \in Threads |-> NoText]
  /\ calls = [t \in Threads |-> 0]
  /\ used_key = [t \in Threads |-> Unset]
  /\ resp = [t \in Threads |-> NoResp]
  /\ raised = [t \in Threads |-> None]
  /\ assistant_text = [t \in Threads |-> Unset]
  /\ stdout = [t \in Threads |-> Unset]
  /\ exit = [t \in Threads |-> NoExit]

\* One invocation of main per process.
Init ==
  /\ Blank
  /\ pc = [t \in Threads |-> IF t = 1 THEN "start" ELSE "idle"]
  /\ environ \in {None, "", "sk-env"}
  /\ \E a \in [api_key : {None, "", "sk-arg"}, raw_file : PathArgs, jd_file : PathArgs,
                name : {DEFAULT_NAME, <<"{", "U", "}">>}] :
       args = [t \in Threads |-> IF t = 1 THEN a ELSE DefaultArgs]
  /\ raw = [t \in Threads |-> NoText]
  /\ jd = [t \in Threads |-> NoText]

Next ==
  \E t \in Threads :
    \/ SetApiKey(t)
    \/ CheckKey(t)
    \/ ReadRaw(t)
    \/ ReadJd(t)
    \/ BuildPrompt(t)
    \/ CallService(t)
    \/ ExtractText(t)
    \/ HandleFailure(t)
    \/ WriteOutput(t)

Spec == Init /\ [][Next]_vars

\* Every thread of one process runs main, each with its own --api-key.
ThreadsInit ==
  /\ Blank
  /\ pc = [t \in Threads |-> "start"]
  /\ environ = None
  /\ args = [t \in Threads |-> [DefaultArgs EXCEPT !.api_key = KeyOf(t)]]
  /\ raw = [t \in Threads |-> NoText]
  /\ jd = [t \in Threads |-> NoText]

SpecThreads == ThreadsInit /\ [][Next]_vars

\* build_prompt applied to arbitrary bounded arguments.
PromptInit ==
  /\ Blank
  /\ pc = [t \in Threads |-> IF t = 1 THEN "build" ELSE "idle"]
  /\ environ = None
  /\ \E r \in RawTexts, j \in JdTexts, n \in Names :
       /\ raw = [t \in Threads |-> IF t = 1 THEN r ELSE NoText]
       /\ jd = [t \in Threads |-> IF t = 1 THEN j ELSE NoText]
       /\ args = [t \in Threads |-> IF t = 1 THEN [DefaultArgs EXCEPT !.name = n]
                                              ELSE DefaultArgs]

PromptNext == \E t \in Threads : BuildPrompt(t)

SpecPrompt == PromptInit /\ [][PromptNext]_vars

----------------------------------------------------------------------------
(* Reading the composed prompt *)

Tokens == {Field(RAW_CAREER_DATA), Field(TARGET_JOB_DESCRIPTION),
           Field(USER_NAME), Field(USER_NAME_LOWER)}

Contains(s, w) == \E i \in 1..(Len(s) - Len(w) + 1) : SubSeq(s, i, i + Len(w) - 1) = w

Whitespace == {" ", "\t", "\n", "\r"}

Built(t) == prompt[t] /= NoText

\* The parts .format produced for invocation t's arguments.
PartsOf(t) == build_prompt(raw[t], jd[t], args[t].name).parts

\* Length of the text of the parts before part k.
Offset(ps, k) == Len(Join(SubSeq(ps, 1, k - 1)))

\* The texts found in p at the places where parts ps have field n substituted.
SlotTextsIn(ps, p, n) ==
  {SubSeq(p, Offset(ps, k) + 1, Offset(ps, k) + Len(ps[k].text)) :
     k \in {k \in DOMAIN ps : ps[k].slot = n}}

\* The texts found in prompt[t] at the places where field n was substituted.
SlotTexts(t, n) == SlotTextsIn(PartsOf(t), prompt[t], n)

FieldCount(ps) == Cardinality({k \in DOMAIN ps : ps[k].slot /= <<>>})

\* Number of places of prompt[t] that were filled from a field.
SlotCount(t) == FieldCount(PartsOf(t))

----------------------------------------------------------------------------
(* Claims about build_prompt, checked under SpecPrompt *)

\* C1: raw career text and job description text containing braces appear at
\* each of their slots character for character (every brace singly), and no
\* further slot is resolved from them.
C1_BracesVerbatim ==
  \A t \in Threads :
    Built(t) =>
      /\ SlotTexts(t, RAW_CAREER_DATA) = {raw[t]}
      /\ SlotTexts(t, TARGET_JOB_DESCRIPTION) = {jd[t]}
      /\ SlotCount(t) = 7

C9_NoTokenEver ==
  \A t \in Threads :
    /\ pc[t] /= "crashed"
    /\ Built(t) => \A w \in Tokens : ~Contains(prompt[t], w)

\* Where an input can carry a placeholder token into the prompt.
CarriesToken(t) ==
  \E w \in Tokens :
    \/ Contains(raw[t], w)
    \/ Contains(jd[t], w)
    \/ Contains(args[t].name, w)
    \/ Contains(Replace(Lower(args[t].name), " ", <<>>), w)

\* C9 amended: for all inputs the call does not fail, and the composed prompt
\* contains none of the four placeholder tokens unless one of the three inputs,
\* or the name lowercased with its spaces removed, itself contains such a token.
C9_NoTokenUnlessSupplied ==
  \A t \in Threads :
    /\ pc[t] /= "crashed"
    /\ (Built(t) /\ ~CarriesToken(t)) => \A w \in Tokens : ~Contains(prompt[t], w)

\* A built prompt from inputs with braces in all three, none carrying a token.
C9_Witness ==
  \E t \in Threads :
    /\ Built(t)
    /\ ~CarriesToken(t)
    /\ raw[t] = <<"{", "u">>
    /\ jd[t] = <<"}">>
    /\ args[t].name = <<"{", "}", "U">>

\* C10: a string with braces gives the same text at a candidate-name slot,
\* when it is the name, as at a raw-career-text slot, when it is the raw text.
C10_NameNeutralizedAlike ==
  \A t \in Threads :
    (Built(t) /\ args[t].name = raw[t]) =>
      SlotTexts(t, USER_NAME) = SlotTexts(t, RAW_CAREER_DATA)

----------------------------------------------------------------------------
(* Claims about call_openai_chat and main, checked under Spec *)

Ended(t) == pc[t] \in {"done", "crashed"}

\* call_openai_chat returned a value to main.
Returned(t) == assistant_text[t] /= Unset

\* call_openai_chat raised: main is in, or went through, its except clause.
CallFailed(t) == pc[t] = "except" \/ (pc[t] = "done" /\ exit[t] = 3)

\* The extraction chain of lines 133-144 has run on resp[t].
Extracted(t) == Returned(t) \/ (CallFailed(t) /\ raised[t] \notin ServiceFailures)

\* C2: extraction returns the value of the first of the paths mapping-style
\* message.content, attribute-style message.content, legacy text that
\* resolves; it fails only when none of them resolves.
C2_FirstResolvingPathWins ==
  \A t \in Threads :
    Extracted(t) =>
      /\ resp[t].map /= Missing => (Returned(t) /\ assistant_text[t] = resp[t].map)
      /\ (resp[t].map = Missing /\ resp[t].attr /= Missing)
           => (Returned(t) /\ assistant_text[t] = resp[t].attr)
      /\ (resp[t].map = Missing /\ resp[t].attr = Missing /\ resp[t].text /= Missing)
           => (Returned(t) /\ assistant_text[t] = resp[t].text)
      /\ (resp[t].map = Missing /\ resp[t].attr = Missing /\ resp[t].text = Missing)
           => ~Returned(t)

\* Only the legacy text path resolves, and its value was returned.
C2_Witness ==
  \E t \in Threads :
    /\ resp[t] = [map |-> Missing, attr |-> Missing, text |-> "legacy"]
    /\ assistant_text[t] = "legacy"

\* The kind call_openai_chat raises when no extraction path resolves (line 144).
ServiceErrorKind == "RuntimeError"

\* C3: every failure of call_openai_chat, of the outbound call or of the
\* extraction, has one and the same error kind, and an error raised while
\* reading the inputs or building the prompt has a different kind.
C3_SingleServiceErrorKind ==
  \A t \in Threads :
    /\ CallFailed(t) => raised[t] = ServiceErrorKind
    /\ pc[t] = "crashed" => raised[t] /= ServiceErrorKind

\* C4: call_openai_chat never returns a null or empty value, and main never
\* returns 0 after writing the empty string to standard output.
C4_NoEmptyAnswer ==
  \A t \in Threads :
    /\ Returned(t) => Truthy(assistant_text[t])
    /\ (pc[t] = "done" /\ exit[t] = 0) => stdout[t] /= ""

\* C5: a run issues at most one outbound call, exactly one once the call step
\* is passed; a failed call or extraction ends the run with 3 after that one
\* call, and a run that ends with 2 issued none.
C5_ExactlyOneCall ==
  \A t \in Threads :
    /\ calls[t] <= 1
    /\ pc[t] \in {"extract", "except", "write"} => calls[t] = 1
    /\ (pc[t] = "done" /\ exit[t] /= 2) => calls[t] = 1
    /\ (pc[t] = "done" /\ raised[t] /= None) => (exit[t] = 3 /\ calls[t] = 1)
    /\ (pc[t] = "done" /\ exit[t] = 2) => calls[t] = 0

\* A run that ended with 3 after a rate-limit failure of its one call.
C5_Witness ==
  \E t \in Threads :
    pc[t] = "done" /\ exit[t] = 3 /\ raised[t] = "RateLimitError" /\ calls[t] = 1

\* No credential: neither --api-key nor OPENAI_API_KEY gives a non-empty value.
NoCredential(t) == ~Truthy(args[t].api_key) /\ ~Truthy(environ)

\* C6: every run ends with one of the codes 0, 2, 3; 2 exactly when there is
\* no credential, and then nothing was read and no call made; 3 exactly when
\* the call or the extraction failed; 0 otherwise, with the extracted text on
\* standard output.
C6_ExitCodes ==
  \A t \in Threads :
    Ended(t) =>
      /\ exit[t] \in {0, 2, 3}
      /\ exit[t] = 2 <=> NoCredential(t)
      /\ exit[t] = 2 => (raw[t] = NoText /\ jd[t] = NoText /\ calls[t] = 0)
      /\ exit[t] = 3 <=> (calls[t] = 1 /\ ~Returned(t))
      /\ exit[t] = 0 => (Returned(t) /\ stdout[t] /= Unset)

----------------------------------------------------------------------------
(* Claim about concurrent invocations, checked under SpecThreads *)

\* C7: the credential in effect when an invocation issues its outbound call
\* is the credential that invocation itself resolved.
C7_OwnCredentialAtCall ==
  \A t \in Threads : calls[t] > 0 => used_key[t] = resolved[t]

====
